---- MODULE Spec2Model ----
(***************************************************************************)
(* Huffman text compression tool (src/src/compression_tool/compression.py) *)
(*                                                                         *)
(* Symbols are Unicode code points (integers), strings are sequences of    *)
(* code points, bit strings are sequences of 0/1, bytes are 0..255.        *)
(* A HuffmanTree is represented by its root node; None is the empty root.  *)
(***************************************************************************)
EXTENDS Integers, Sequences, FiniteSets, TLC

VARIABLES
    entry,          \* which public call is being followed
    pc,             \* position inside that call
    error,          \* exception raised ("none" while running normally)
    contents,       \* Compress._contents
    frequency,      \* Counter as a sequence of <<character, count>> (insertion order)
    nodes,          \* from_frequency: working list of trees
    steps,          \* from_frequency: calls of huffman_tree_step so far
    tree,           \* tree returned by from_frequency
    table,          \* tree.generate_table()
    header,         \* tree.generate_header()
    file,           \* bytes written by Compress.compress
    encoded_tree,   \* decoded_from_header: shape bitstring argument
    characters,     \* decoded_from_header: characters argument
    built,          \* decoded_from_header: nodes constructed
    dec_tree,       \* tree returned by decoded_from_header
    dec_table,      \* decode_header: returned prefix table
    contents_index, \* decode_header: returned index of the body
    encoded_text,   \* decode_file_contents: bits of the body
    pos,            \* decode_file_contents: bits consumed by the loop
    char,           \* decode_file_contents: accumulator
    decoded_text    \* decode_file_contents: result so far

vars == <<entry, pc, error, contents, frequency, nodes, steps, tree, table,
          header, file, encoded_tree, characters, built, dec_tree, dec_table,
          contents_index, encoded_text, pos, char, decoded_text>>

----------------------------------------------------------------------------
(* Bounds of the model *)

MaxLen == 5         \* longest text given to Compress
MaxCount == 2       \* largest count in a directly supplied Counter
MaxChars == 3       \* longest characters string given to decoded_from_header
MaxPayload == 5     \* most bytes after the length fields of a file given to decompress_file

\* characters of the texts: "X", "t" and the two-byte "e-acute"
TextAlphabet == {88, 116, 233}
\* characters of directly supplied Counters
Alphabet == {88, 97, 116, 233}
\* characters of directly supplied header data
HeaderAlphabet == {88, 233}
\* bytes after the length fields of directly supplied files: as shape bytes
\* "100" and "11000", as symbols U+0004, U+0018 and "X", as body bytes
\* 00000100, 00011000 and 01011000
FileBytes == {4, 24, 88}

----------------------------------------------------------------------------
(* Generic helpers *)

Min(a, b) == IF a < b THEN a ELSE b

Max(a, b) == IF a > b THEN a ELSE b

\* Python slice s[a:b] with 0-based bounds, clamped to the sequence
Slice(s, a, b) ==
    LET lo == Min(Max(a, 0), Len(s))
        hi == Min(Max(b, 0), Len(s))
    IN  IF hi <= lo THEN <<>> ELSE SubSeq(s, lo + 1, hi)

RECURSIVE Concat(_)
Concat(ss) == IF ss = <<>> THEN <<>> ELSE Head(ss) \o Concat(Tail(ss))

Zeros(n) == [i \in 1..n |-> 0]

RECURSIVE Pow2(_)
Pow2(n) == IF n = 0 THEN 1 ELSE 2 * Pow2(n - 1)

\* sequences over S of length at most n
SeqsUpTo(S, n) == UNION {[1..k -> S] : k \in 0..n}

\* sequences over S without repetition
DistinctSeqs(S) ==
    {s \in SeqsUpTo(S, Cardinality(S)) :
        \A i, j \in 1..Len(s) : i # j => s[i] # s[j]}

----------------------------------------------------------------------------
(* Nodes: HuffmanLeafNode, HuffmanInternalNode, and None *)

None == [kind |-> "none"]

HuffmanLeafNode(w, v) == [kind |-> "leaf", weight |-> w, value |-> v]

HuffmanInternalNode(w, l, r) ==
    [kind |-> "internal", weight |-> w, left |-> l, right |-> r]

\* HuffmanTree.weight
Weight(root) == IF root = None THEN 0 ELSE root.weight

----------------------------------------------------------------------------
(* Compress.__init__: Counter(contents), keys in order of first occurrence *)

RECURSIVE Counter(_, _)
Counter(text, acc) ==
    IF text = <<>> THEN acc
    ELSE LET c == Head(text)
             at == {i \in 1..Len(acc) : acc[i][1] = c}
         IN  IF at = {}
             THEN Counter(Tail(text), Append(acc, <<c, 1>>))
             ELSE LET i == CHOOSE k \in at : TRUE
                  IN  Counter(Tail(text),
                              [acc EXCEPT ![i] = <<c, acc[i][2] + 1>>])

----------------------------------------------------------------------------
(* HuffmanTree builder *)

\* from_frequency, the list comprehension: one leaf tree per item
InitialNodes(freq) ==
    [i \in 1..Len(freq) |-> HuffmanLeafNode(freq[i][2], freq[i][1])]

\* faulty variant: a tree is put before the trees of its own weight
RECURSIVE InsertByWeightUnstable(_, _)
InsertByWeightUnstable(sortedList, t) ==
    IF sortedList = <<>> THEN <<t>>
    ELSE IF Weight(Head(sortedList)) < Weight(t)
         THEN <<Head(sortedList)>> \o InsertByWeightUnstable(Tail(sortedList), t)
         ELSE <<t>> \o sortedList

\* stable insertion of one tree into a weight-sorted list
RECURSIVE InsertByWeight(_, _)
InsertByWeight(sortedList, t) ==
    IF sortedList = <<>> THEN <<t>>
    ELSE IF Weight(Head(sortedList)) <= Weight(t)
         THEN <<Head(sortedList)>> \o InsertByWeight(Tail(sortedList), t)
         ELSE <<t>> \o sortedList

RECURSIVE SortedFrom(_, _)
SortedFrom(elements, acc) ==
    IF elements = <<>> THEN acc
    ELSE SortedFrom(Tail(elements), InsertByWeight(acc, Head(elements)))

\* faulty variant: the list is left in its order
Unsorted(elements) == elements

\* sorted(list(elements), key=lambda x: x.weight): a stable sort
SortedByWeight(elements) == SortedFrom(elements, <<>>)

\* faulty variant: the children are attached the other way round
huffman_merge_swapped(element_left, element_right) ==
    HuffmanInternalNode(Weight(element_left) + Weight(element_right),
                        element_right, element_left)

\* faulty variant: the left tree is attached on both sides
huffman_merge_left_twice(element_left, element_right) ==
    HuffmanInternalNode(Weight(element_left) + Weight(element_right),
                        element_left, element_left)

\* faulty variant: the new root takes the weight of the left tree only
huffman_merge_left_weight(element_left, element_right) ==
    HuffmanInternalNode(Weight(element_left), element_left, element_right)

\* huffman_merge
huffman_merge(element_left, element_right) ==
    HuffmanInternalNode(Weight(element_left) + Weight(element_right),
                        element_left, element_right)

\* faulty variant: only the first of the two merged trees leaves the list
huffman_tree_step_keeps_second(elements) ==
    LET sorted == SortedByWeight(elements)
        new_element == huffman_merge(sorted[1], sorted[2])
    IN  SubSeq(sorted, 2, Len(sorted)) \o <<new_element>>

\* huffman_tree_step
huffman_tree_step(elements) ==
    LET sorted == SortedByWeight(elements)
        new_element == huffman_merge(sorted[1], sorted[2])
    IN  SubSeq(sorted, 3, Len(sorted)) \o <<new_element>>

----------------------------------------------------------------------------
(* CodeTableGenerator *)

\* faulty variant: the left child inherits the prefix unchanged
LeftPrefixUnextended(prefix) == prefix

\* generate_table: f"{prefix}0", the prefix handed to the left child
LeftPrefix(prefix) == Append(prefix, 0)

\* generate_table: f"{prefix}1", the prefix handed to the right child
RightPrefix(prefix) == Append(prefix, 1)

\* generate_table, the while loop: queue of <<node, prefix>>, table a function
RECURSIVE TableLoop(_, _)
TableLoop(queue, tbl) ==
    IF queue = <<>> THEN tbl
    ELSE LET node == Head(queue)[1]
             prefix == Head(queue)[2]
         IN  IF node.kind = "leaf"
             THEN TableLoop(Tail(queue), (node.value :> prefix) @@ tbl)
             ELSE IF node.kind = "internal"
                  THEN TableLoop(Tail(queue) \o
                                   << <<node.left, LeftPrefix(prefix)>>,
                                      <<node.right, RightPrefix(prefix)>> >>,
                                 tbl)
                  ELSE TableLoop(Tail(queue), tbl)

EmptyTable == [c \in {} |-> <<>>]

generate_table(root) ==
    IF root = None THEN EmptyTable
    ELSE TableLoop(<< <<root, <<>> >> >>, EmptyTable)

----------------------------------------------------------------------------
(* Integers, bit strings and bytes *)

\* int(string, 2) for a non-empty string of 0/1
RECURSIVE BitsToInt(_, _)
BitsToInt(bits, acc) ==
    IF bits = <<>> THEN acc ELSE BitsToInt(Tail(bits), 2 * acc + Head(bits))

\* int.bit_length()
RECURSIVE BitLength(_)
BitLength(n) == IF n = 0 THEN 0 ELSE 1 + BitLength(n \div 2)

\* int.to_bytes(length), big-endian (the default byte order)
RECURSIVE ToBytes(_, _)
ToBytes(n, length) ==
    IF length = 0 THEN <<>>
    ELSE Append(ToBytes(n \div 256, length - 1), n % 256)

\* int.from_bytes(bytes), big-endian; 0 for no bytes
RECURSIVE FromBytesAcc(_, _)
FromBytesAcc(bytes, acc) ==
    IF bytes = <<>> THEN acc
    ELSE FromBytesAcc(Tail(bytes), 256 * acc + Head(bytes))

FromBytes(bytes) == FromBytesAcc(bytes, 0)

\* bin(n)[2:]: the binary digits of n without leading zeros, "0" for 0
RECURSIVE Bin(_)
Bin(n) == IF n < 2 THEN <<n>> ELSE Append(Bin(n \div 2), n % 2)

\* bin(byte)[2:].rjust(8, "0")
ByteBits(byte) == LET b == Bin(byte) IN Zeros(8 - Len(b)) \o b

\* encode_binary_string: ValueError on the empty string (int("", 2))
encode_binary_string(string) ==
    IF string = <<>> THEN [err |-> "ValueError", val |-> <<>>]
    ELSE LET num == BitsToInt(string, 0)
         IN  [err |-> "none",
              val |-> ToBytes(num, (BitLength(num) + 7) \div 8)]

\* str.encode(): UTF-8 of one code point below 2048
Utf8Char(cp) ==
    IF cp < 128 THEN <<cp>> ELSE <<192 + (cp \div 64), 128 + (cp % 64)>>

Utf8Encode(string) == Concat([i \in 1..Len(string) |-> Utf8Char(string[i])])

\* bytes.decode(): UTF-8 sequences of one and two bytes
RECURSIVE Utf8Decode(_, _)
Utf8Decode(bytes, acc) ==
    IF bytes = <<>> THEN [err |-> "none", val |-> acc]
    ELSE LET b == Head(bytes)
         IN  IF b < 128 THEN Utf8Decode(Tail(bytes), Append(acc, b))
             ELSE IF /\ b >= 194 /\ b <= 223 /\ Len(bytes) >= 2
                     /\ bytes[2] >= 128 /\ bytes[2] <= 191
                  THEN Utf8Decode(Tail(Tail(bytes)),
                                  Append(acc, (b - 192) * 64 + (bytes[2] - 128)))
                  ELSE [err |-> "UnicodeDecodeError", val |-> acc]

----------------------------------------------------------------------------
(* TreeSerializer *)

\* faulty variant: the right child is queued before the left child
EncodeChildrenRightFirst(node) == <<node.right, node.left>>

\* encode_tree: queue.extend([node.left, node.right])
EncodeChildren(node) == <<node.left, node.right>>

\* encode_tree, the while loop; returns <<tree_encoding, char_encoding>>
RECURSIVE EncodeLoop(_, _, _)
EncodeLoop(queue, tree_encoding, char_encoding) ==
    IF queue = <<>> THEN <<tree_encoding, char_encoding>>
    ELSE LET node == Head(queue)
         IN  IF node.kind = "internal"
             THEN EncodeLoop(Tail(queue) \o EncodeChildren(node),
                             Append(tree_encoding, 1), char_encoding)
             ELSE IF node.kind = "leaf"
                  THEN EncodeLoop(Tail(queue), Append(tree_encoding, 0),
                                  Append(char_encoding, node.value))
                  ELSE EncodeLoop(Tail(queue), tree_encoding, char_encoding)

encode_tree(root) == EncodeLoop(<<root>>, <<>>, <<>>)

\* faulty variant: the length is written least significant byte first
LengthFieldLittleEndian(n) == <<n % 256, (n \div 256) % 256, (n \div 65536) % 256, n \div 16777216>>

\* generate_header: len(...).to_bytes(4)
LengthField(n) == ToBytes(n, 4)

\* generate_header
generate_header(root) ==
    LET enc == encode_tree(root)
        tree_encoded == encode_binary_string(enc[1])
        char_encoded == Utf8Encode(enc[2])
    IN  IF tree_encoded.err # "none"
        THEN [err |-> tree_encoded.err, val |-> <<>>]
        ELSE [err |-> "none",
              val |-> LengthField(Len(tree_encoded.val))
                      \o LengthField(Len(char_encoded))
                      \o tree_encoded.val \o char_encoded]

----------------------------------------------------------------------------
(* TreeDeserializer: decoded_from_header builds nodes in place; the nodes   *)
(* live in an arena (sequence) and refer to children by index, 0 for None.  *)

ArenaLeaf(v) == [kind |-> "leaf", weight |-> 0, value |-> v, left |-> 0, right |-> 0]

ArenaInternal == [kind |-> "internal", weight |-> 0, value |-> 0, left |-> 0, right |-> 0]

\* the tree rooted at arena node id, as nested nodes
RECURSIVE ToTree(_, _)
ToTree(arena, id) ==
    IF id = 0 THEN None
    ELSE IF arena[id].kind = "leaf"
         THEN HuffmanLeafNode(arena[id].weight, arena[id].value)
         ELSE HuffmanInternalNode(arena[id].weight,
                                  ToTree(arena, arena[id].left),
                                  ToTree(arena, arena[id].right))

\* faulty variant: the characters are taken from the end
NextCharacterFromEnd(chars, i) == chars[Len(chars) - i]

\* decoded_from_header: characters[i], i counted from 0
NextCharacter(chars, i) == chars[i + 1]

\* decoded_from_header, the for loop over encoded_tree[1:]; k is the 1-based
\* position of the next bit, i the number of characters consumed
RECURSIVE DecodeLoop(_, _, _, _, _, _)
DecodeLoop(bits, chars, k, i, arena, nodes_to_process) ==
    IF k > Len(bits)
    THEN IF nodes_to_process # <<>>
         THEN [err |-> "HuffmanDecodeError", tree |-> None, built |-> Len(arena)]
         ELSE [err |-> "none", tree |-> ToTree(arena, 1), built |-> Len(arena)]
    ELSE IF bits[k] = 0 /\ i >= Len(chars)
         \* characters[i]: string index out of range
         THEN [err |-> "IndexError", tree |-> None, built |-> Len(arena)]
         ELSE LET new_node == IF bits[k] = 0 THEN ArenaLeaf(NextCharacter(chars, i))
                              ELSE ArenaInternal
                  id == Len(arena) + 1
                  i2 == IF bits[k] = 0 THEN i + 1 ELSE i
              IN  IF nodes_to_process = <<>>
                  \* nodes_to_process[0]: deque index out of range
                  THEN [err |-> "IndexError", tree |-> None, built |-> id]
                  ELSE LET first == Head(nodes_to_process)
                           attached ==
                               IF arena[first].left = 0
                               THEN [arena EXCEPT ![first].left = id]
                               ELSE [arena EXCEPT ![first].right = id]
                           remaining ==
                               IF arena[first].left = 0 THEN nodes_to_process
                               ELSE Tail(nodes_to_process)
                           queue2 ==
                               IF new_node.kind = "internal"
                               THEN Append(remaining, id) ELSE remaining
                       IN  DecodeLoop(bits, chars, k + 1, i2,
                                      Append(attached, new_node), queue2)

\* faulty variant: one node too many is expected
ExpectedShapeLengthPlusOne(chars) == 2 * Len(chars)

\* decoded_from_header: 2 * len(characters) - 1
ExpectedShapeLength(chars) == 2 * Len(chars) - 1

\* decoded_from_header
decoded_from_header(bits, chars) ==
    IF Len(bits) # ExpectedShapeLength(chars)
    THEN [err |-> "HuffmanDecodeError", tree |-> None, built |-> 0]
    ELSE IF bits = <<>>
    THEN [err |-> "none", tree |-> None, built |-> 0]
    ELSE IF Len(bits) = 1
    THEN IF bits = <<1>>
         THEN [err |-> "HuffmanDecodeError", tree |-> None, built |-> 0]
         ELSE [err |-> "none", tree |-> HuffmanLeafNode(0, chars[1]), built |-> 1]
    ELSE IF bits[1] = 0
    THEN [err |-> "HuffmanDecodeError", tree |-> None, built |-> 0]
    ELSE DecodeLoop(bits, chars, 2, 0, <<ArenaInternal>>, <<1>>)

\* decode_header
decode_header(file_contents) ==
    LET tree_length == FromBytes(Slice(file_contents, 0, 4))
        encoding_length == FromBytes(Slice(file_contents, 4, 8))
        index == 8 + tree_length + encoding_length
        tree_data == Bin(FromBytes(Slice(file_contents, 8, 8 + tree_length)))
        chars == Utf8Decode(Slice(file_contents, 8 + tree_length, index), <<>>)
        decoded == decoded_from_header(tree_data, chars.val)
        failed == IF chars.err # "none" THEN chars.err ELSE decoded.err
    IN  [err |-> failed,
         tree_data |-> tree_data,
         characters |-> chars.val,
         built |-> IF chars.err # "none" THEN 0 ELSE decoded.built,
         tree |-> IF failed # "none" THEN None ELSE decoded.tree,
         table |-> IF failed # "none" THEN EmptyTable
                   ELSE generate_table(decoded.tree),
         index |-> index]

----------------------------------------------------------------------------
(* BitPacker / BitReader *)

\* compress: "".join(encoding_table[char] for char in self._contents)
EncodedContents(tbl, text) == Concat([i \in 1..Len(text) |-> tbl[text[i]]])

\* faulty variant: a whole byte of zeros is appended to an aligned body
PaddingFullByte(length) == Zeros(8 - (length % 8))

\* compress: the pad appended when len(encoded_contents) % 8 is not 0
Padding(length) == Zeros(length % 8)

\* compress: one byte per slice encoded_contents[i : i + 8], i = 0, 8, 16, ...
RECURSIVE PackBytes(_)
PackBytes(bits) ==
    IF bits = <<>> THEN <<>>
    ELSE <<BitsToInt(Slice(bits, 0, 8), 0)>> \o PackBytes(Slice(bits, 8, Len(bits)))

\* compress: the bytes written after the header
Body(tbl, text) ==
    LET encoded_contents == EncodedContents(tbl, text)
    IN  PackBytes(encoded_contents \o Padding(Len(encoded_contents)))

\* decode_file_contents: the bits of file_contents[idx:]
BodyBits(file_contents, idx) ==
    LET body == Slice(file_contents, idx, Len(file_contents))
    IN  Concat([i \in 1..Len(body) |-> ByteBits(body[i])])

\* decode_file_contents: {value: key for key, value in prefix_table.items()};
\* the codes of a table are those of distinct leaves, so no two keys share one
InTable(tbl, code) == \E c \in DOMAIN tbl : tbl[c] = code

Lookup(tbl, code) == CHOOSE c \in DOMAIN tbl : tbl[c] = code

----------------------------------------------------------------------------
(* Inputs *)

\* texts read by Compress.__init__
Texts == SeqsUpTo(TextAlphabet, MaxLen)

\* Counters handed to from_frequency directly: distinct characters in any
\* insertion order, each with a count in 0..MaxCount
FrequencyTables ==
    UNION {{[i \in 1..Len(s) |-> <<s[i], c[i]>>] : c \in [1..Len(s) -> 0..MaxCount]} :
           s \in DistinctSeqs(Alphabet)}

\* the worked example, in the order the specification lists it:
\* E:120, U:37, D:42, L:42, C:32, M:24, Z:2, K:7
SampleFrequencySpecOrder ==
    << <<69, 120>>, <<85, 37>>, <<68, 42>>, <<76, 42>>,
       <<67, 32>>, <<77, 24>>, <<90, 2>>, <<75, 7>> >>

\* HUFFMAN_SAMPLE.frequency: C:32, D:42, E:120, K:7, L:42, M:24, U:37, Z:2
SampleFrequency ==
    << <<67, 32>>, <<68, 42>>, <<69, 120>>, <<75, 7>>,
       <<76, 42>>, <<77, 24>>, <<85, 37>>, <<90, 2>> >>

\* make_sample_huffman_tree
SampleTree ==
    HuffmanInternalNode(306,
        HuffmanLeafNode(120, 69),
        HuffmanInternalNode(186,
            HuffmanInternalNode(79, HuffmanLeafNode(37, 85), HuffmanLeafNode(42, 68)),
            HuffmanInternalNode(107,
                HuffmanLeafNode(42, 76),
                HuffmanInternalNode(65,
                    HuffmanLeafNode(32, 67),
                    HuffmanInternalNode(33,
                        HuffmanInternalNode(9, HuffmanLeafNode(2, 90), HuffmanLeafNode(7, 75)),
                        HuffmanLeafNode(24, 77))))))

\* HUFFMAN_SAMPLE.table
SampleTable ==
    (69 :> <<0>>) @@ (85 :> <<1, 0, 0>>) @@ (68 :> <<1, 0, 1>>)
    @@ (76 :> <<1, 1, 0>>) @@ (67 :> <<1, 1, 1, 0>>) @@ (77 :> <<1, 1, 1, 1, 1>>)
    @@ (90 :> <<1, 1, 1, 1, 0, 0>>) @@ (75 :> <<1, 1, 1, 1, 0, 1>>)

\* shape bitstrings and characters handed to decoded_from_header directly
Shapes == SeqsUpTo({0, 1}, 2 * MaxChars)

CharacterStrings == SeqsUpTo(HeaderAlphabet, MaxChars)

\* files handed to decompress_file directly: two length fields declaring up to
\* one shape byte and up to MaxChars symbol bytes, then any bytes, cut off at
\* any point (so that the data may be shorter or longer than declared)
SuppliedFiles ==
    {Slice(<<0, 0, 0, n1, 0, 0, 0, n2>> \o p, 0, k) :
        n1 \in 0..1, n2 \in 0..MaxChars,
        p \in SeqsUpTo(FileBytes, MaxPayload), k \in {3, 7, 8 + MaxPayload}}

----------------------------------------------------------------------------
(* State machine *)

Idle ==
    /\ error = "none"
    /\ nodes = <<>> /\ steps = 0 /\ tree = None /\ table = EmptyTable
    /\ header = <<>> /\ file = <<>>
    /\ built = 0 /\ dec_tree = None /\ dec_table = EmptyTable
    /\ contents_index = 0 /\ encoded_text = <<>> /\ pos = 0
    /\ char = <<>> /\ decoded_text = <<>>

\* Compress(path) has read the text and counted it; compress(out) and
\* decompress_file(out) follow
InitCompress ==
    /\ entry = "compress"
    /\ pc = "from_frequency"
    /\ contents \in Texts
    /\ frequency = Counter(contents, <<>>)
    /\ encoded_tree = <<>> /\ characters = <<>>
    /\ Idle

\* from_frequency called on a Counter, then generate_table, generate_header
\* and decode_header on the results (the calls of tests/test_compression.py)
InitFromFrequency ==
    /\ entry = "from_frequency"
    /\ pc = "from_frequency"
    /\ contents = <<>>
    /\ frequency \in FrequencyTables \cup {SampleFrequency, SampleFrequencySpecOrder}
    /\ encoded_tree = <<>> /\ characters = <<>>
    /\ Idle

\* decoded_from_header called on header data
InitDecodedFromHeader ==
    /\ entry = "decoded_from_header"
    /\ pc = "decoded_from_header"
    /\ contents = <<>> /\ frequency = <<>>
    /\ encoded_tree \in Shapes
    /\ characters \in CharacterStrings
    /\ Idle

\* decompress_file called on a file that compress did not write
InitDecompressFile ==
    /\ entry = "decompress_file"
    /\ pc = "decode_file_contents"
    /\ contents = <<>> /\ frequency = <<>>
    /\ encoded_tree = <<>> /\ characters = <<>>
    /\ error = "none"
    /\ nodes = <<>> /\ steps = 0 /\ tree = None /\ table = EmptyTable
    /\ header = <<>>
    /\ file \in SuppliedFiles
    /\ built = 0 /\ dec_tree = None /\ dec_table = EmptyTable
    /\ contents_index = 0 /\ encoded_text = <<>> /\ pos = 0
    /\ char = <<>> /\ decoded_text = <<>>

Init ==
    \/ InitCompress
    \/ InitFromFrequency
    \/ InitDecodedFromHeader
    \/ InitDecompressFile

\* from_frequency up to the while loop
FromFrequencyStart ==
    /\ pc = "from_frequency"
    /\ nodes' = InitialNodes(frequency)
    /\ pc' = IF nodes' = <<>> THEN "generate_table" ELSE "merge"
    /\ UNCHANGED <<entry, error, contents, frequency, steps, tree, table, header,
                   file, encoded_tree, characters, built, dec_tree, dec_table,
                   contents_index, encoded_text, pos, char, decoded_text>>

\* from_frequency: one iteration of the while loop
HuffmanTreeStep ==
    /\ pc = "merge"
    /\ Len(nodes) > 1
    /\ nodes' = huffman_tree_step(nodes)
    /\ steps' = steps + 1
    /\ UNCHANGED <<entry, pc, error, contents, frequency, tree, table, header,
                   file, encoded_tree, characters, built, dec_tree, dec_table,
                   contents_index, encoded_text, pos, char, decoded_text>>

\* from_frequency: return nodes[0]
FromFrequencyReturn ==
    /\ pc = "merge"
    /\ Len(nodes) <= 1
    /\ tree' = nodes[1]
    /\ pc' = "generate_table"
    /\ UNCHANGED <<entry, error, contents, frequency, nodes, steps, table, header,
                   file, encoded_tree, characters, built, dec_tree, dec_table,
                   contents_index, encoded_text, pos, char, decoded_text>>

GenerateTable ==
    /\ pc = "generate_table"
    /\ table' = generate_table(tree)
    /\ pc' = "generate_header"
    /\ UNCHANGED <<entry, error, contents, frequency, nodes, steps, tree, header,
                   file, encoded_tree, characters, built, dec_tree, dec_table,
                   contents_index, encoded_text, pos, char, decoded_text>>

GenerateHeader ==
    /\ pc = "generate_header"
    /\ LET h == generate_header(tree)
       IN  /\ error' = h.err
           /\ header' = h.val
           /\ pc' = IF h.err # "none" THEN "raised"
                    ELSE IF entry = "compress" THEN "write" ELSE "decode_header"
    /\ UNCHANGED <<entry, contents, frequency, nodes, steps, tree, table,
                   file, encoded_tree, characters, built, dec_tree, dec_table,
                   contents_index, encoded_text, pos, char, decoded_text>>

\* Compress.compress: write the header and the packed body
WriteFile ==
    /\ pc = "write"
    /\ file' = header \o Body(table, contents)
    /\ pc' = "decode_file_contents"
    /\ UNCHANGED <<entry, error, contents, frequency, nodes, steps, tree, table,
                   header, encoded_tree, characters, built, dec_tree, dec_table,
                   contents_index, encoded_text, pos, char, decoded_text>>

\* HuffmanTree.decode_header(header)
DecodeHeader ==
    /\ pc = "decode_header"
    /\ LET r == decode_header(header)
       IN  /\ encoded_tree' = r.tree_data
           /\ characters' = r.characters
           /\ built' = r.built
           /\ dec_tree' = r.tree
           /\ dec_table' = r.table
           /\ contents_index' = r.index
           /\ error' = r.err
           /\ pc' = IF r.err # "none" THEN "raised" ELSE "done"
    /\ UNCHANGED <<entry, contents, frequency, nodes, steps, tree, table, header,
                   file, encoded_text, pos, char, decoded_text>>

\* decompress_file / decode_file_contents up to the for loop
DecodeFileContentsStart ==
    /\ pc = "decode_file_contents"
    /\ LET r == decode_header(file)
       IN  /\ encoded_tree' = r.tree_data
           /\ characters' = r.characters
           /\ built' = r.built
           /\ dec_tree' = r.tree
           /\ dec_table' = r.table
           /\ contents_index' = r.index
           /\ error' = r.err
           /\ encoded_text' = IF r.err # "none" THEN <<>> ELSE BodyBits(file, r.index)
           /\ pc' = IF r.err # "none" THEN "raised" ELSE "decode_loop"
    /\ UNCHANGED <<entry, contents, frequency, nodes, steps, tree, table, header,
                   file, pos, char, decoded_text>>

\* decode_file_contents: one iteration of the for loop
DecodeBit ==
    /\ pc = "decode_loop"
    /\ pos < Len(encoded_text)
    /\ LET acc == Append(char, encoded_text[pos + 1])
       IN  IF InTable(dec_table, acc)
           THEN /\ decoded_text' = Append(decoded_text, Lookup(dec_table, acc))
                /\ char' = <<>>
           ELSE /\ decoded_text' = decoded_text
                /\ char' = acc
    /\ pos' = pos + 1
    /\ UNCHANGED <<entry, pc, error, contents, frequency, nodes, steps, tree, table,
                   header, file, encoded_tree, characters, built, dec_tree,
                   dec_table, contents_index, encoded_text>>

\* decode_file_contents: return decoded_text
DecodeFileContentsReturn ==
    /\ pc = "decode_loop"
    /\ pos = Len(encoded_text)
    /\ pc' = "done"
    /\ UNCHANGED <<entry, error, contents, frequency, nodes, steps, tree, table,
                   header, file, encoded_tree, characters, built, dec_tree,
                   dec_table, contents_index, encoded_text, pos, char, decoded_text>>

\* HuffmanTree.decoded_from_header(encoded_tree, characters)
DecodedFromHeader ==
    /\ pc = "decoded_from_header"
    /\ LET r == decoded_from_header(encoded_tree, characters)
       IN  /\ built' = r.built
           /\ dec_tree' = r.tree
           /\ error' = r.err
           /\ pc' = IF r.err # "none" THEN "raised" ELSE "done"
    /\ UNCHANGED <<entry, contents, frequency, nodes, steps, tree, table, header,
                   file, encoded_tree, characters, dec_table, contents_index,
                   encoded_text, pos, char, decoded_text>>

Next ==
    \/ FromFrequencyStart
    \/ HuffmanTreeStep
    \/ FromFrequencyReturn
    \/ GenerateTable
    \/ GenerateHeader
    \/ WriteFile
    \/ DecodeHeader
    \/ DecodeFileContentsStart
    \/ DecodeBit
    \/ DecodeFileContentsReturn
    \/ DecodedFromHeader

Spec == Init /\ [][Next]_vars

----------------------------------------------------------------------------
(* Properties *)

\* compress has written the file
Written == entry = "compress" /\ pc \in {"decode_file_contents", "decode_loop", "done"}

\* decode_header has been called on what generate_header returned
HeaderDecoded ==
    \/ entry = "from_frequency" /\ pc \in {"done", "raised"}
    \/ entry = "compress" /\ pc \in {"decode_loop", "done"}
    \/ entry = "compress" /\ pc = "raised" /\ file # <<>>

\* the code bits of the text: the codes of its characters in input order
CodeBits == EncodedContents(table, contents)

\* the bytes of the file after the header
WrittenBody == Slice(file, Len(header), Len(file))

\* a node with every weight set to 0
RECURSIVE Unweighted(_)
Unweighted(node) ==
    IF node.kind = "leaf" THEN HuffmanLeafNode(0, node.value)
    ELSE IF node.kind = "internal"
         THEN HuffmanInternalNode(0, Unweighted(node.left), Unweighted(node.right))
         ELSE node

\* C1: every text written by Compress.compress and read back by
\* decompress_file comes back unchanged, and neither call raises.
C1_RoundTrip ==
    entry = "compress" =>
        /\ pc # "raised"
        /\ pc = "done" => decoded_text = contents

\* C2: the body is ceil(L/8) bytes whose bits, most significant first, are
\* the L code bits of the text followed only by 0 pad bits.
C2_BodyPacking ==
    Written =>
        LET L == Len(CodeBits)
        IN  /\ Len(WrittenBody) = (L + 7) \div 8
            /\ BodyBits(file, Len(header)) = CodeBits \o Zeros(8 * Len(WrittenBody) - L)

\* C3: a text of k >= 1 repetitions of one symbol compresses and decompresses
\* without error to the same k symbols.
C3_SingleSymbol ==
    (entry = "compress" /\ Len(frequency) = 1) =>
        /\ pc # "raised"
        /\ pc = "done" => decoded_text = contents

\* C4: the empty text compresses without raising to a header of two zero
\* length fields and nothing else, and that file decompresses to the empty text.
C4_EmptyInput ==
    (entry = "compress" /\ contents = <<>>) =>
        /\ pc # "raised"
        /\ Written => file = <<0, 0, 0, 0, 0, 0, 0, 0>>
        /\ pc = "done" => decoded_text = <<>>

\* C5: for a tree built from N >= 1 symbols, decode_header of its
\* generate_header rebuilds the same shape with the same symbol at every leaf
\* (weights dropped) and returns the code table of the original tree.
C5_HeaderRoundTrip ==
    (HeaderDecoded /\ Len(frequency) >= 1) =>
        /\ error = "none"
        /\ dec_tree = Unweighted(tree)
        /\ dec_table = generate_table(tree)

\* C5 witness: a header of a three-level tree holding a two-byte symbol has
\* been decoded back to the same shape
C5_Witness ==
    /\ entry = "from_frequency" /\ pc = "done"
    /\ Len(frequency) = 4
    /\ tree.left.kind = "leaf" /\ tree.right.kind = "internal"
    /\ 233 \in DOMAIN dec_table
    /\ dec_tree = Unweighted(tree)

\* generate_table has returned the table of the built tree
TableGenerated ==
    /\ entry \in {"compress", "from_frequency"}
    /\ pc \notin {"from_frequency", "merge", "generate_table"}

\* from_frequency has returned
TreeBuilt ==
    /\ entry \in {"compress", "from_frequency"}
    /\ pc \notin {"from_frequency", "merge"}

\* sum over the symbols of (code length x frequency)
RECURSIVE TableCost(_, _)
TableCost(tbl, freq) ==
    IF freq = <<>> THEN 0
    ELSE Len(tbl[Head(freq)[1]]) * Head(freq)[2] + TableCost(tbl, Tail(freq))

\* Least cost of a full binary tree over the symbols of a frequency table.
\* A set of symbol positions is numbered by its bit mask; Opt(S) is 0 for one
\* symbol, else the weight of S plus the least Opt(A) + Opt(S \ A) over the
\* splits of S, computed for the masks in increasing order.
MaskSet(m, n) == {i \in 1..n : (m \div Pow2(i - 1)) % 2 = 1}

RECURSIVE SetMask(_)
SetMask(S) ==
    IF S = {} THEN 0
    ELSE LET i == CHOOSE k \in S : TRUE IN Pow2(i - 1) + SetMask(S \ {i})

RECURSIVE SetWeight(_, _)
SetWeight(S, freq) ==
    IF S = {} THEN 0
    ELSE LET i == CHOOSE k \in S : TRUE IN freq[i][2] + SetWeight(S \ {i}, freq)

MinOf(S) == CHOOSE x \in S : \A y \in S : x <= y

OptEntry(m, acc, freq) ==
    LET S == MaskSet(m, Len(freq))
    IN  IF Cardinality(S) = 1 THEN 0
        ELSE SetWeight(S, freq)
             + MinOf({acc[SetMask(A)] + acc[m - SetMask(A)] :
                      A \in (SUBSET S) \ {{}, S}})

\* acc holds the entries of masks 1..Len(acc); extend it up to mask stop
RECURSIVE OptBlock(_, _, _)
OptBlock(stop, acc, freq) ==
    IF Len(acc) >= stop THEN acc
    ELSE OptBlock(stop, Append(acc, OptEntry(Len(acc) + 1, acc, freq)), freq)

\* all entries, sixteen masks at a time
RECURSIVE OptTable(_, _)
OptTable(acc, freq) ==
    IF Len(acc) >= Pow2(Len(freq)) - 1 THEN acc
    ELSE OptTable(OptBlock(Min(Len(acc) + 16, Pow2(Len(freq)) - 1), acc, freq), freq)

OptimalCost(freq) == OptTable(<<>>, freq)[Pow2(Len(freq)) - 1]

\* C6: for N >= 2 symbols the table generated from from_frequency's tree has
\* the least sum of (code length x frequency) of all full binary trees over
\* the same symbols.
C6_Optimality ==
    (TableGenerated /\ pc = "generate_header" /\ Len(frequency) >= 2) =>
        TableCost(table, frequency) = OptimalCost(frequency)

\* C6 witness: a table over four symbols with unequal counts and code lengths
\* 1, 2, 3, 3 has been generated
C6_Witness ==
    /\ TableGenerated /\ pc = "generate_header"
    /\ Len(frequency) = 4
    /\ \E i, j \in 1..4 : frequency[i][2] > frequency[j][2] /\ frequency[j][2] > 0
    /\ \E c, d \in DOMAIN table : Len(table[c]) = 3 /\ Len(table[d]) = 1

IsPrefix(a, b) == Len(a) <= Len(b) /\ SubSeq(b, 1, Len(a)) = a

\* C7: for N >= 2 symbols generate_table returns exactly one code per symbol,
\* all non-empty and distinct, none a prefix of another.
C7_PrefixFree ==
    (TableGenerated /\ Len(frequency) >= 2) =>
        /\ DOMAIN table = {frequency[i][1] : i \in 1..Len(frequency)}
        /\ Cardinality(DOMAIN table) = Len(frequency)
        /\ \A c \in DOMAIN table : table[c] # <<>>
        /\ \A c, d \in DOMAIN table : c # d =>
               table[c] # table[d] /\ ~IsPrefix(table[c], table[d])

\* C7 witness: a table of four codes of different lengths has been generated
C7_Witness ==
    /\ TableGenerated
    /\ Cardinality(DOMAIN table) = 4
    /\ \E c, d \in DOMAIN table : Len(table[c]) = 1 /\ Len(table[d]) = 3

\* C8: the worked example, in the specification's order and in the fixture's
\* order, builds the fixture tree (root weight 306, E the left child of the
\* root) and the fixture's code table.
C8_CanonicalExample ==
    (frequency \in {SampleFrequency, SampleFrequencySpecOrder}) =>
        /\ TreeBuilt =>
               /\ tree = SampleTree
               /\ Weight(tree) = 306
               /\ tree.left = HuffmanLeafNode(120, 69)
        /\ TableGenerated => table = SampleTable

\* C8 witness: the example in the specification's order has been built and
\* its table generated
C8_Witness ==
    /\ frequency = SampleFrequencySpecOrder
    /\ TableGenerated
    /\ steps = 7
    /\ table[75] = <<1, 1, 1, 1, 0, 1>>

\* generate_header has returned
HeaderGenerated ==
    /\ entry \in {"compress", "from_frequency"}
    /\ pc \in {"write", "decode_header", "decode_file_contents", "decode_loop", "done"}

\* the value of four bytes read as a big-endian number
BigEndian4(b) == ((b[1] * 256 + b[2]) * 256 + b[3]) * 256 + b[4]

\* C9: the header is N1 and N2 as 4 big-endian bytes each, then the N1 packed
\* shape bytes, then the N2 encoded symbol bytes, 8+N1+N2 bytes in all, and
\* decode_header returns 8+N1+N2 as the index of the body.
C9_HeaderLayout ==
    HeaderGenerated =>
        LET shape == encode_binary_string(encode_tree(tree)[1]).val
            symbols == Utf8Encode(encode_tree(tree)[2])
            N1 == Len(shape)
            N2 == Len(symbols)
        IN  /\ Len(header) = 8 + N1 + N2
            /\ BigEndian4(SubSeq(header, 1, 4)) = N1
            /\ BigEndian4(SubSeq(header, 5, 8)) = N2
            /\ SubSeq(header, 9, 8 + N1) = shape
            /\ SubSeq(header, 9 + N1, 8 + N1 + N2) = symbols
            /\ HeaderDecoded => contents_index = 8 + N1 + N2

\* C9 witness: decode_header has returned the body index of a header whose
\* symbol field is longer than its number of symbols
C9_Witness ==
    /\ HeaderGenerated /\ HeaderDecoded
    /\ Len(frequency) = 3
    /\ Len(header) = 13
    /\ SubSeq(header, 1, 8) = <<0, 0, 0, 1, 0, 0, 0, 4>>
    /\ contents_index = 13

\* C10: decoded_from_header either returns a tree or raises
\* HuffmanDecodeError, whatever shape bitstring and symbols it is given.
C10_TypedErrorsOnly ==
    entry = "decoded_from_header" => error \in {"none", "HuffmanDecodeError"}

\* decode_file_contents has returned its text
TextReturned == entry \in {"compress", "decompress_file"} /\ pc = "done"

\* C11: when the bits of the body run out while the accumulator is non-empty
\* and equal to no code, decode_file_contents raises instead of returning text.
C11_UnrecognizedBits ==
    TextReturned => (char = <<>> \/ InTable(dec_table, char))

\* C12: a file shorter than 8+N1+N2 bytes, N1 and N2 being its two length
\* fields, makes decode_header raise; no code table is returned for it.
C12_InconsistentLengths ==
    (/\ entry \in {"compress", "decompress_file"}
     /\ pc \in {"decode_loop", "done", "raised"}
     /\ Len(file) >= 8
     /\ Len(file) < 8 + FromBytes(SubSeq(file, 1, 4)) + FromBytes(SubSeq(file, 5, 8)))
        => error # "none"

\* decoded_from_header has been called on encoded_tree and characters
DecodedFromHeaderCalled == entry = "decoded_from_header" /\ pc \in {"done", "raised"}

\* C13: decoded_from_header raises HuffmanDecodeError for every shape whose
\* length differs from 2N-1, N the number of symbols, before building a node.
C13_LengthCheck ==
    (DecodedFromHeaderCalled /\ Len(encoded_tree) # 2 * Len(characters) - 1) =>
        /\ error = "HuffmanDecodeError"
        /\ built = 0
        /\ dec_tree = None

\* C13 witness: a shape of four bits given with two symbols (three bits
\* expected) was rejected with no node built
C13_Witness ==
    /\ DecodedFromHeaderCalled
    /\ encoded_tree = <<1, 0, 0, 0>>
    /\ Len(characters) = 2
    /\ error = "HuffmanDecodeError"
    /\ built = 0

\* place of elements[i] in the list sorted stably by weight: one more than
\* the number of trees that are lighter, or as heavy and earlier in the list
StableRank(elements, i) ==
    1 + Cardinality({j \in 1..Len(elements) :
            \/ Weight(elements[j]) < Weight(elements[i])
            \/ Weight(elements[j]) = Weight(elements[i]) /\ j < i})

\* C14: every step of from_frequency merges the first two trees of the working
\* list sorted stably by weight, the first as left child and the second as
\* right child (so left.weight <= right.weight), keeps the other trees in that
\* sorted order and appends the merged tree at the end.
C14_TieBreak ==
    [][(pc = "merge" /\ steps' = steps + 1) =>
        LET n == Len(nodes)
            a == CHOOSE i \in 1..n : StableRank(nodes, i) = 1
            b == CHOOSE i \in 1..n : StableRank(nodes, i) = 2
        IN  /\ Len(nodes') = n - 1
            /\ nodes'[n - 1].kind = "internal"
            /\ nodes'[n - 1].left = nodes[a]
            /\ nodes'[n - 1].right = nodes[b]
            /\ Weight(nodes'[n - 1].left) <= Weight(nodes'[n - 1].right)
            /\ \A i \in 1..n : i \notin {a, b} =>
                   nodes'[StableRank(nodes, i) - 2] = nodes[i]
      ]_vars

\* C14 witness: four symbols of equal count after the first step: the first
\* two symbols were merged in their order and the merged tree stands last
C14_Witness ==
    /\ pc = "merge" /\ steps = 1
    /\ Len(frequency) = 4
    /\ \A i \in 1..4 : frequency[i][2] = 1
    /\ Len(nodes) = 3
    /\ nodes[3].kind = "internal"
    /\ nodes[3].left.value = frequency[1][1]
    /\ nodes[3].right.value = frequency[2][1]
    /\ nodes[1].value = frequency[3][1]

\* every Internal node below (and including) node has both children set
RECURSIVE BothChildrenSet(_)
BothChildrenSet(node) ==
    IF node.kind = "internal"
    THEN /\ node.left # None /\ node.right # None
         /\ BothChildrenSet(node.left) /\ BothChildrenSet(node.right)
    ELSE TRUE

\* the values of the leaves met when the nodes of queue and their descendants
\* are visited breadth-first, left before right
RECURSIVE LeavesBreadthFirst(_)
LeavesBreadthFirst(queue) ==
    IF queue = <<>> THEN <<>>
    ELSE LET node == Head(queue)
         IN  IF node.kind = "leaf"
             THEN <<node.value>> \o LeavesBreadthFirst(Tail(queue))
             ELSE IF node.kind = "internal"
                  THEN LeavesBreadthFirst(Tail(queue) \o <<node.left, node.right>>)
                  ELSE LeavesBreadthFirst(Tail(queue))

\* number of bits equal to b among the first k bits
BitCount(bits, k, b) == Cardinality({j \in 1..k : bits[j] = b})

\* no prefix of the shape completes a tree: every prefix has at least as many
\* Internal nodes as leaves, so an Internal node still waits for a child when
\* the bits are exhausted
NeverComplete(bits) ==
    \A k \in 1..Len(bits) : BitCount(bits, k, 0) <= BitCount(bits, k, 1)

\* C15: for a shape of 2N-1 bits, N >= 2: a returned tree has both children at
\* every Internal node, exactly N leaves, and its leaves in breadth-first
\* left-to-right order carry characters[0..N-1]; a shape starting with 0, or
\* leaving an Internal node without two children when the bits are exhausted,
\* raises HuffmanDecodeError.
C15_DecodedTreeWellFormed ==
    (/\ DecodedFromHeaderCalled
     /\ Len(characters) >= 2
     /\ Len(encoded_tree) = 2 * Len(characters) - 1) =>
        /\ error = "none" =>
               /\ dec_tree.kind = "internal"
               /\ BothChildrenSet(dec_tree)
               /\ LeavesBreadthFirst(<<dec_tree>>) = characters
        /\ (encoded_tree[1] = 0 \/ NeverComplete(encoded_tree)) =>
               error = "HuffmanDecodeError"

\* C15 witness: the shape 11000 was decoded with three symbols, not all the same
C15_Witness ==
    /\ DecodedFromHeaderCalled
    /\ error = "none"
    /\ encoded_tree = <<1, 1, 0, 0, 0>>
    /\ characters = <<88, 233, 88>>
    /\ dec_tree.left.kind = "internal"
    /\ dec_tree.right.value = 88
    /\ dec_tree.left.right.value = 88

\* C15 witness of the rejection: the shape 11100 leaves two Internal nodes
\* without children
C15_WitnessIncomplete ==
    /\ DecodedFromHeaderCalled
    /\ encoded_tree = <<1, 1, 1, 0, 0>>
    /\ error = "HuffmanDecodeError"
    /\ built > 0

\* C16: from_frequency over N >= 1 symbols ends after exactly N-1 calls of
\* huffman_tree_step, each shortening the working list by one tree, and returns
\* the one tree left; N = 1 merges nothing and returns a single Leaf; N = 0
\* returns the empty tree of weight 0.
C16_BuilderTermination ==
    LET N == Len(frequency)
    IN  /\ pc = "merge" =>
               /\ Len(nodes) = N - steps
               /\ Len(nodes) >= 1
        /\ TreeBuilt =>
               /\ N >= 1 => (steps = N - 1 /\ nodes = <<tree>>)
               /\ N = 1 => (steps = 0 /\ tree.kind = "leaf")
               /\ N = 0 => (steps = 0 /\ tree = None /\ Weight(tree) = 0)

\* C16 witness: four symbols were merged in three steps
C16_Witness ==
    /\ TreeBuilt
    /\ Len(frequency) = 4
    /\ steps = 3
    /\ nodes = <<tree>>
    /\ tree.kind = "internal"

\* the leaves below (and including) node, left to right
RECURSIVE Leaves(_)
Leaves(node) ==
    IF node.kind = "leaf" THEN <<node>>
    ELSE IF node.kind = "internal" THEN Leaves(node.left) \o Leaves(node.right)
         ELSE <<>>

\* the number of Internal nodes below (and including) node
RECURSIVE InternalCount(_)
InternalCount(node) ==
    IF node.kind = "internal"
    THEN 1 + InternalCount(node.left) + InternalCount(node.right)
    ELSE 0

\* C17: for N >= 2 symbols the built tree has exactly N leaves and N-1 Internal
\* nodes, both children set at every Internal node, and exactly one leaf per
\* symbol of the frequency table, weighing the symbol's count.
C17_BuiltTreeStructure ==
    (TreeBuilt /\ Len(frequency) >= 2) =>
        LET N == Len(frequency)
            leaves == Leaves(tree)
        IN  /\ Len(leaves) = N
            /\ InternalCount(tree) = N - 1
            /\ BothChildrenSet(tree)
            /\ \A i \in 1..N :
                   \E k \in 1..Len(leaves) :
                       /\ leaves[k] = HuffmanLeafNode(frequency[i][2], frequency[i][1])
                       /\ \A m \in 1..Len(leaves) :
                              leaves[m].value = frequency[i][1] => m = k

\* C17 witness: a tree over four symbols with different counts has been built
C17_Witness ==
    /\ TreeBuilt
    /\ Len(frequency) = 4
    /\ frequency[1][2] = 2 /\ frequency[2][2] = 0 /\ frequency[3][2] = 1
    /\ Len(Leaves(tree)) = 4
    /\ InternalCount(tree) = 3

\* every Internal node below (and including) node weighs as much as its two
\* children together
RECURSIVE WeightsAddUp(_)
WeightsAddUp(node) ==
    IF node.kind = "internal"
    THEN /\ node.weight = Weight(node.left) + Weight(node.right)
         /\ WeightsAddUp(node.left) /\ WeightsAddUp(node.right)
    ELSE TRUE

RECURSIVE TotalCount(_)
TotalCount(freq) == IF freq = <<>> THEN 0 ELSE Head(freq)[2] + TotalCount(Tail(freq))

RECURSIVE TotalWeight(_)
TotalWeight(elements) ==
    IF elements = <<>> THEN 0
    ELSE Weight(Head(elements)) + TotalWeight(Tail(elements))

\* C18: after every merge step each Internal node weighs the sum of its two
\* children and the root weights of the working list add up to the sum of all
\* counts; the final tree weighs that sum.
C18_WeightInvariant ==
    /\ pc = "merge" =>
           /\ \A i \in 1..Len(nodes) : WeightsAddUp(nodes[i])
           /\ TotalWeight(nodes) = TotalCount(frequency)
    /\ TreeBuilt =>
           /\ WeightsAddUp(tree)
           /\ Weight(tree) = TotalCount(frequency)

\* C18 witness: after two merge steps two trees are left, one of them merged
\* from a merged tree
C18_Witness ==
    /\ pc = "merge" /\ steps = 2
    /\ Len(nodes) = 2
    /\ nodes[2].kind = "internal"
    /\ nodes[2].right.kind = "internal"
    /\ nodes[2].right.weight = 1
    /\ nodes[2].weight = 2
    /\ nodes[1].weight = 2
    /\ TotalWeight(nodes) = TotalCount(frequency)

\* C19: a text of at least 2 distinct symbols whose code bits fill whole bytes
\* comes back unchanged from decompress_file: the bits consumed so far are
\* always the codes of the symbols emitted followed by the accumulator, which
\* is never left equal to a code, and the accumulator is empty at the end.
C19_ByteAlignedRoundTrip ==
    (/\ entry = "compress"
     /\ pc \in {"decode_file_contents", "decode_loop", "done", "raised"}
     /\ Len(frequency) >= 2
     /\ Len(CodeBits) % 8 = 0) =>
        /\ pc # "raised"
        /\ pc = "decode_loop" =>
               /\ SubSeq(encoded_text, 1, pos)
                      = EncodedContents(dec_table, decoded_text) \o char
               /\ ~InTable(dec_table, char)
        /\ pc = "done" => (decoded_text = contents /\ char = <<>>)

\* C19 witness: a text of five symbols, three of them distinct, with eight code
\* bits has been written and read back
C19_Witness ==
    /\ entry = "compress" /\ pc = "done"
    /\ Len(frequency) = 3
    /\ Len(contents) = 5
    /\ Len(CodeBits) = 8
    /\ Len(file) = Len(header) + 1
    /\ decoded_text = contents

====
